---------------------------- MODULE Spec2Model ----------------------------
(***************************************************************************)
(* Warehouse product picker of static/js/ui-utils.js: the shared prefetch  *)
(* cache, the local filter, and the per-row search coordinator (debounce   *)
(* timer, request token, remote search with staleness check).              *)
(*                                                                         *)
(* Text is a sequence of one-character strings, so that trim, toLowerCase, *)
(* join and includes are computed rather than assumed.  Products are       *)
(* referred to by identifier; their fields are given by the catalogue      *)
(* operators Product*(id).                                                  *)
(***************************************************************************)
EXTENDS Integers, Sequences, FiniteSets, TLC

VARIABLES
  started,          \* the picker script has run (line 416 executed)
  now,              \* Date.now(), in milliseconds since page load
  prefetchCache,    \* let prefetchCache (line 61): sequence of product ids
  prefetchPromise,  \* let prefetchPromise (line 62): "null", "pending", "fulfilled", "rejected"
  prefetchReply,    \* what the prefetch endpoint answered (NoReply while none yet)
  prefetchRequests, \* number of fetch(API_PREFETCH) calls made so far
  waiters,          \* rows whose openPrefetch .then callback awaits the pending load
  focused,          \* document.activeElement: a row's search input, or NoRow
  searchValue,      \* per row: .product-search value
  query,            \* per row: the trimmed query of the latest input event
  hiddenId,         \* per row: .product-id value (0 = empty)
  maxQty,           \* per row: qtyInput.dataset.maxQty / max attribute (0 = none)
  qtyValue,         \* per row: .qty value
  availHidden,      \* per row: .availability-msg carries d-none
  remoteRequestId,  \* per row: row.dataset.remoteRequestId (NoToken = undefined)
  localTimer,       \* per row: the pending debounce timer, or NoTimer
  pendingTimers,    \* the debounce callbacks scheduled by setTimeout and neither run nor cleared
  hideTimer,        \* per row: the pending blur grace timer (its due time), or NoTimer
  box,              \* per row: the suggestion box
  matches,          \* per row: what filterLocalProducts returned in the latest input event
  inflight,         \* remote searches awaiting the network
  invState,         \* inventory page: const state (lines 26-37): filter, offset, total_count, has_more
  grid,             \* inventory page: the children of #inventoryGrid, in order
  modals,           \* inventory page: the items whose modals are in #inventoryModals, in order
  loadMoreDisabled, \* inventory page: loadMoreBtn.disabled
  invLoads,         \* inventory page: loadInventory calls awaiting the network
  loadsStarted,     \* inventory page: number of loadInventory calls so far
  lastReset,        \* inventory page: which of them was the latest reset load
  itemRequests,     \* inventory page: update / delete / transfer requests awaiting the network
  rowList,          \* order form: the rows of #rows (tr elements), in document order
  notesField,       \* order form: notesField.value
  orderRequests,    \* order form: create-order requests awaiting the network
  ordersSent,       \* order form: number of create-order requests sent so far
  alertBox          \* order form: class and text of #alertBox

vars == << started, now, prefetchCache, prefetchPromise, prefetchReply,
           prefetchRequests, waiters, focused, searchValue, query, hiddenId,
           maxQty, qtyValue, availHidden, remoteRequestId, localTimer,
           pendingTimers, hideTimer, box, matches, inflight,
           invState, grid, modals, loadMoreDisabled, invLoads, loadsStarted,
           lastReset, itemRequests,
           rowList, notesField, orderRequests, ordersSent, alertBox >>

\* the state of the inventory page, which the order page never touches
inventoryVars == << invState, grid, modals, loadMoreDisabled, invLoads,
                   loadsStarted, lastReset, itemRequests >>

\* the state of the order form around the picker's rows (src/unnamed/part_000)
orderFormVars == << rowList, notesField, orderRequests, ordersSent, alertBox >>

\* what the picker's own handlers never touch
pageVars == << inventoryVars, orderFormVars >>

\* the state of the product picker
pickerVars == << started, now, prefetchCache, prefetchPromise,
                   prefetchReply, prefetchRequests, waiters, focused,
                   searchValue, query, hiddenId, maxQty, qtyValue, availHidden,
                   remoteRequestId, localTimer, pendingTimers, hideTimer, box,
                   matches, inflight >>

\* the state of the order page, which the inventory page never touches
orderPageVars == << pickerVars, orderFormVars >>

---------------------------------------------------------------------------
(* Program constants *)

PREFETCH_LIMIT == 300
DISPLAY_LIMIT == 30
DEBOUNCE_MS == 220
HIDE_MS == 150
MIN_REMOTE_LEN == 2

(* Bounds of the model *)

\* the clock advances in steps of TickMs milliseconds, MaxTicks times at most
TickMs == 220
MaxTicks == 2
\* length of the longest cache drawn exhaustively in the filter specification
MaxCacheLen == 2
\* the user clicks one of the first MaxClickIndex suggestions
MaxClickIndex == 1
\* loadInventory calls explored on the inventory page
MaxLoads == 3
\* item requests awaiting the network at once
MaxItemRequests == 1

\* create-order requests sent in one behaviour
MaxOrders == 1

Rows == {"r1", "r2"}

\* the row the user searches in
FirstRow == "r1"
NoRow == "none"
NoTimer == [set |-> FALSE]
NoToken == 0 - 1
NoReply == [kind |-> "none"]
\* an update answer without updated_item
NoQty == 0 - 1

---------------------------------------------------------------------------
(* Text *)

\* String.prototype.toLowerCase on the model's alphabet
LowerChar(c) ==
  CASE c = "A" -> "a"
    [] c = "B" -> "b"
    [] OTHER -> c

ToLowerCase(s) == [i \in 1..Len(s) |-> LowerChar(s[i])]

RECURSIVE TrimStart(_)
TrimStart(s) ==
  IF s # << >> /\ Head(s) = " " THEN TrimStart(Tail(s)) ELSE s

RECURSIVE TrimEnd(_)
TrimEnd(s) ==
  IF s # << >> /\ s[Len(s)] = " " THEN TrimEnd(SubSeq(s, 1, Len(s) - 1)) ELSE s

\* String.prototype.trim
Trim(s) == TrimEnd(TrimStart(s))

\* String.prototype.includes
Includes(hay, needle) ==
  \E i \in 0..(Len(hay) - Len(needle)) :
     SubSeq(hay, i + 1, i + Len(needle)) = needle

\* [a, b, c].join(" ")
JoinSpace(a, b, c) == a \o << " " >> \o b \o << " " >> \o c

---------------------------------------------------------------------------
(* The catalogue: the fields of the product with identifier id.  Four kinds *)
(* of product repeat along the identifiers.  An absent field is the empty  *)
(* text (the code reads every field as  field || "").                       *)

ProductName(id) ==
  CASE id % 4 = 1 -> << "A", "b" >>
    [] id % 4 = 2 -> << "b", "a" >>
    [] id % 4 = 3 -> << "B" >>
    [] OTHER -> << >>

ProductSku(id) ==
  CASE id % 4 = 1 -> << "B" >>
    [] id % 4 = 3 -> << "A" >>
    [] OTHER -> << >>

ProductTag(id) ==
  CASE id % 4 = 2 -> << "a" >>
    [] id % 4 = 3 -> << "b" >>
    [] OTHER -> << >>

\* qty_available; 0 stands for 0 or absent
ProductQty(id) ==
  CASE id % 4 = 1 -> 5
    [] id % 4 = 2 -> 0
    [] id % 4 = 3 -> 2
    [] OTHER -> 0

\* the result list  1, 2, ..., n
Catalogue(n) == [i \in 1..n |-> i]


---------------------------------------------------------------------------
(* Rendering *)

Min(a, b) == IF a <= b THEN a ELSE b

\* Array.prototype.slice(0, limit)
Slice(s, limit) == SubSeq(s, 1, Min(limit, Len(s)))

\* The suggestion box as left by the latest render.  hidden: the box carries
\* d-none; kind/items/msg: its content; origin and q name the call site that
\* rendered it and the query that call was made for.
EmptyBox ==
  [hidden |-> TRUE, kind |-> "none", items |-> << >>, msg |-> "",
   origin |-> "none", q |-> << >>]

renderMessage(message, origin, q) ==
  [hidden |-> FALSE, kind |-> "message", items |-> << >>, msg |-> message,
   origin |-> origin, q |-> q]

renderSuggestionsShort(items, emptyMessage, origin, q) ==
  LET subset == Slice(items, DISPLAY_LIMIT - 1) IN
    IF subset = << >>
      THEN renderMessage(emptyMessage, origin, q)
      ELSE [hidden |-> FALSE, kind |-> "products", items |-> subset,
            msg |-> "", origin |-> origin, q |-> q]

renderSuggestions(items, emptyMessage, origin, q) ==
  LET subset == Slice(items, DISPLAY_LIMIT) IN
    IF subset = << >>
      THEN renderMessage(emptyMessage, origin, q)
      ELSE [hidden |-> FALSE, kind |-> "products", items |-> subset,
            msg |-> "", origin |-> origin, q |-> q]

---------------------------------------------------------------------------
(* Prefetch cache *)

\* What the prefetch endpoint may answer: the fetch rejects, a non-success
\* status, a body that does not parse, a body without results, a result list.
PrefetchFailures ==
  { [kind |-> "reject"], [kind |-> "status"], [kind |-> "badjson"] }

PrefetchReplies ==
  PrefetchFailures \cup
  { [kind |-> "noresults"],
    [kind |-> "json", results |-> Catalogue(3)],
    [kind |-> "json", results |-> Catalogue(PREFETCH_LIMIT + 1)] }

\* the body of the try block, lines 141-146: the value assigned to
\* prefetchCache, for a reply that does not throw
PrefetchStore(reply) ==
  IF reply.kind = "json" THEN reply.results ELSE << >>

\* the promise of the async body never rejects: the catch block swallows
PrefetchSettleRethrows(reply) ==
  IF reply \in PrefetchFailures THEN "rejected" ELSE "fulfilled"

PrefetchSettle(reply) == "fulfilled"

\* loadPrefetch up to its return: one request unless a promise exists
loadPrefetchAlways ==
  /\ prefetchPromise' = "pending"
  /\ prefetchRequests' = prefetchRequests + 1

loadPrefetch ==
  IF prefetchPromise # "null"
    THEN UNCHANGED << prefetchPromise, prefetchRequests >>
    ELSE /\ prefetchPromise' = "pending"
         /\ prefetchRequests' = prefetchRequests + 1

\* combined text of a product, lines 166-172
Combined(id) ==
  JoinSpace(ToLowerCase(ProductName(id)), ToLowerCase(ProductSku(id)),
            ToLowerCase(ProductTag(id)))

\* line 173
ProductMatches(id, needle) == Includes(Combined(id), needle)

\* lines 175-177
LimitReachedLate(n) == n > DISPLAY_LIMIT

LimitReached(n) == n >= DISPLAY_LIMIT

\* one pass through the body of the for loop, lines 165-179: st.acc is the
\* array matches, st.done says that the loop was left by break
FilterStep(st, product, needle) ==
  IF st.done THEN st
  ELSE IF ProductMatches(product, needle)
    THEN LET pushed == Append(st.acc, product) IN
           [acc |-> pushed, done |-> LimitReached(Len(pushed))]
    ELSE st

\* the loop over cache[lo..hi] in cache order, started in state st (the range
\* is halved only to keep the evaluation shallow; the order is that of the loop)
RECURSIVE FilterRange(_, _, _, _, _)
FilterRange(cache, needle, lo, hi, st) ==
  IF lo > hi THEN st
  ELSE IF lo = hi THEN FilterStep(st, cache[lo], needle)
  ELSE LET mid == (lo + hi) \div 2
           left == FilterRange(cache, needle, lo, mid, st)
       IN IF left.done THEN left
          ELSE FilterRange(cache, needle, mid + 1, hi, left)

filterLocalProducts(cache, q) ==
  IF cache = << >> THEN << >>
  ELSE IF q = << >> THEN Slice(cache, DISPLAY_LIMIT)
  ELSE FilterRange(cache, ToLowerCase(q), 1, Len(cache),
                   [acc |-> << >>, done |-> FALSE]).acc

---------------------------------------------------------------------------
(* Row helpers *)

\* clearTimeout(hideTimer), lines 298-300: the row's grace timer is dropped
clearHideTimerNoop(timer, r) == timer

clearHideTimer(timer, r) == [timer EXCEPT ![r] = NoTimer]

\* if (localTimer) clearTimeout(localTimer), lines 283-285: the callback the
\* row's handle refers to is taken out of the scheduled ones
clearLocalTimerNoop(pending, r) == pending

clearLocalTimer(pending, r) ==
  { t \in pending : ~(t.row = r /\ t.timer = localTimer[r]) }

\* handleSearchInput lines 280-282: the selection and its quantity bound go
ClearSelectionKeepsBound(r) ==
  /\ hiddenId' = [hiddenId EXCEPT ![r] = 0]
  /\ maxQty' = maxQty

ClearSelection(r) ==
  /\ hiddenId' = [hiddenId EXCEPT ![r] = 0]
  /\ maxQty' = [maxQty EXCEPT ![r] = 0]

\* Date.now(): the wall clock, which the model takes never to run backwards
DateNow == now

\* requestId !== row.dataset.remoteRequestId, lines 229, 239, 248
IsStaleNever(requestId, r) == FALSE

IsStaleAlways(requestId, r) == TRUE

IsStale(requestId, r) == requestId # remoteRequestId[r]

WantsRemoteAlways(q) == TRUE

WantsRemoteNever(q) == FALSE

\* handleSearchInput line 288: is a remote lookup scheduled for this query
WantsRemote(q) == Len(q) >= MIN_REMOTE_LEN

\* texts the user may leave in the search field at an input event
InputValues ==
  { << >>, << " ", "A" >>, << "a", "b" >>, << "b", " ", "b" >> }

\* result lists the search endpoint may return
RemoteResults == { << >>, << 3, 1 >> }

---------------------------------------------------------------------------
(* Initial state: the page before the picker script runs; the rows of the  *)
(* order table are created (createRow, lines 324-343) once it has run.     *)

\* the inventory page is not open
NoInventoryPage ==
  /\ invState = [filter |-> "", offset |-> 0, total_count |-> 0,
                 has_more |-> FALSE]
  /\ grid = << >>
  /\ modals = << >>
  /\ loadMoreDisabled = FALSE
  /\ invLoads = {}
  /\ loadsStarted = 0
  /\ lastReset = 0
  /\ itemRequests = {}

\* #alertBox before any message
NoAlert == [type |-> "none", row |-> 0, text |-> ""]

\* the order form with the rows of container in its table, nothing typed in
\* the notes and nothing sent
OrderForm(container) ==
  /\ rowList = container
  /\ notesField = << >>
  /\ orderRequests = {}
  /\ ordersSent = 0
  /\ alertBox = NoAlert

\* the row the page script adds on load (part_000 line 52) and one added by
\* the add button
BothRows == << "r1", "r2" >>

Init ==
  /\ started = FALSE
  /\ now = 0
  /\ prefetchCache = << >>
  /\ prefetchPromise = "null"
  /\ prefetchReply = NoReply
  /\ prefetchRequests = 0
  /\ waiters = {}
  /\ focused = NoRow
  /\ searchValue = [r \in Rows |-> << >>]
  /\ query = [r \in Rows |-> << >>]
  /\ hiddenId = [r \in Rows |-> 0]
  /\ maxQty = [r \in Rows |-> 0]
  /\ qtyValue = [r \in Rows |-> 1]
  /\ availHidden = [r \in Rows |-> TRUE]
  /\ remoteRequestId = [r \in Rows |-> NoToken]
  /\ localTimer = [r \in Rows |-> NoTimer]
  /\ pendingTimers = {}
  /\ hideTimer = [r \in Rows |-> NoTimer]
  /\ box = [r \in Rows |-> EmptyBox]
  /\ matches = [r \in Rows |-> << >>]
  /\ inflight = {}
  /\ NoInventoryPage
  /\ OrderForm(BothRows)

rowVars == << searchValue, query, hiddenId, maxQty, qtyValue, availHidden,
              remoteRequestId, localTimer, pendingTimers, matches >>

\* line 416: the script's last statement calls loadPrefetch()
ScriptStart ==
  /\ ~started
  /\ started' = TRUE
  /\ loadPrefetch
  /\ UNCHANGED << pageVars, now, prefetchCache, prefetchReply, waiters, focused,
                  rowVars, hideTimer, box, inflight >>

\* time passes
Tick ==
  /\ now + TickMs <= MaxTicks * TickMs
  /\ now' = now + TickMs
  /\ UNCHANGED << pageVars, started, prefetchCache, prefetchPromise, prefetchReply,
                  prefetchRequests, waiters, focused, rowVars, hideTimer,
                  box, inflight >>

PrefetchThenAnyRow(r, cache, active, old) ==
  renderSuggestions(Slice(cache, DISPLAY_LIMIT),
                    "No products loaded yet.", "prefetch", << >>)

\* the .then callback of openPrefetch, lines 271-275, for row r
PrefetchThen(r, cache, active, old) ==
  IF active = r
    THEN renderSuggestions(Slice(cache, DISPLAY_LIMIT),
                           "No products loaded yet.", "prefetch", << >>)
    ELSE old

\* the pending prefetch settles (lines 141-151), then the callbacks of the
\* rows that wait for it run
PrefetchComplete(reply) ==
  /\ prefetchPromise = "pending"
  /\ prefetchReply' = reply
  /\ prefetchCache' = PrefetchStore(reply)
  /\ prefetchPromise' = PrefetchSettle(reply)
  /\ IF prefetchPromise' = "fulfilled"
       THEN box' = [r \in Rows |->
                      IF r \in waiters
                        THEN PrefetchThen(r, prefetchCache', focused, box[r])
                        ELSE box[r]]
       ELSE UNCHANGED box
  /\ waiters' = {}
  /\ UNCHANGED << pageVars, started, now, prefetchRequests, focused, rowVars,
                  hideTimer, inflight >>

\* focus listener, lines 297-302, with openPrefetch, lines 265-276
Focus(r) ==
  /\ started
  /\ focused = NoRow
  /\ focused' = r
  /\ hideTimer' = clearHideTimer(hideTimer, r)
  /\ IF prefetchCache # << >>
       THEN /\ box' = [box EXCEPT ![r] =
                         renderSuggestions(Slice(prefetchCache, DISPLAY_LIMIT),
                                           "No products loaded yet.",
                                           "prefetch", << >>)]
            /\ UNCHANGED << prefetchPromise, prefetchRequests, waiters >>
       ELSE /\ loadPrefetch
            /\ IF prefetchPromise' = "pending"
                 THEN /\ waiters' = waiters \cup {r}
                      /\ box' = [box EXCEPT ![r] =
                                   renderMessage("Loading warehouse products...",
                                                 "prefetch", << >>)]
                 ELSE /\ UNCHANGED waiters
                      /\ box' = [box EXCEPT ![r] =
                           IF prefetchPromise' = "fulfilled"
                             THEN PrefetchThen(r, prefetchCache, r, box[r])
                             ELSE renderMessage("Loading warehouse products...",
                                                "prefetch", << >>)]
  /\ UNCHANGED << pageVars, started, now, prefetchCache, prefetchReply, rowVars,
                  inflight >>

\* blur listener, lines 308-312
Blur(r) ==
  /\ focused = r
  /\ focused' = NoRow
  /\ hideTimer' = [hideTimer EXCEPT ![r] = [set |-> TRUE, due |-> now + HIDE_MS]]
  /\ UNCHANGED << pageVars, started, now, prefetchCache, prefetchPromise, prefetchReply,
                  prefetchRequests, waiters, rowVars, box, inflight >>

\* the grace timer of the blur listener fires, line 310
HideFire(r) ==
  /\ hideTimer[r].set
  /\ now >= hideTimer[r].due
  /\ hideTimer' = [hideTimer EXCEPT ![r] = NoTimer]
  /\ box' = [box EXCEPT ![r].hidden = TRUE]
  /\ UNCHANGED << pageVars, started, now, prefetchCache, prefetchPromise, prefetchReply,
                  prefetchRequests, waiters, focused, rowVars, inflight >>

\* input listener: handleSearchInput, lines 278-295, after the user changed
\* the text of the focused search field to v
handleSearchInput(r, v) ==
  /\ started
  /\ focused = r
  /\ v # searchValue[r]
  /\ LET q == Trim(v)
         found == filterLocalProducts(prefetchCache, q)
     IN
       /\ searchValue' = [searchValue EXCEPT ![r] = v]
       /\ query' = [query EXCEPT ![r] = q]
       /\ ClearSelection(r)
       /\ matches' = [matches EXCEPT ![r] = found]
       /\ box' = [box EXCEPT ![r] =
                    renderSuggestions(found,
                       IF q # << >> THEN "No local matches" ELSE "No products yet.",
                       "local", q)]
       /\ IF WantsRemote(q)
            THEN /\ remoteRequestId' = [remoteRequestId EXCEPT ![r] = DateNow]
                 /\ localTimer' = [localTimer EXCEPT ![r] =
                                     [set |-> TRUE, query |-> q,
                                      requestId |-> DateNow,
                                      due |-> now + DEBOUNCE_MS]]
                 /\ pendingTimers' = clearLocalTimer(pendingTimers, r) \cup
                                       { [row |-> r, timer |-> localTimer'[r]] }
            ELSE /\ UNCHANGED remoteRequestId
                 /\ pendingTimers' = clearLocalTimer(pendingTimers, r)
                 \* a handle whose callback was cleared is inert: NoTimer
                 /\ localTimer' = [localTimer EXCEPT ![r] =
                                     IF pendingTimers' = pendingTimers
                                       THEN localTimer[r] ELSE NoTimer]
  /\ UNCHANGED << pageVars, started, now, prefetchCache, prefetchPromise, prefetchReply,
                  prefetchRequests, waiters, focused, qtyValue, availHidden,
                  hideTimer, inflight >>

\* the debounce timer fires, lines 291-293, and fetchRemoteProducts runs up
\* to its first await, lines 221-228
TimerFire(r) ==
  \E t \in pendingTimers :
    /\ t.row = r
    /\ now >= t.timer.due
    /\ pendingTimers' = pendingTimers \ {t}
    /\ localTimer' = [localTimer EXCEPT ![r] =
                        IF localTimer[r] = t.timer THEN NoTimer ELSE localTimer[r]]
    /\ inflight' =
         IF Len(t.timer.query) < MIN_REMOTE_LEN
           THEN inflight
           ELSE inflight \cup { [row |-> r, query |-> t.timer.query,
                                  requestId |-> t.timer.requestId,
                                  stage |-> "fetch"] }
    /\ UNCHANGED << pageVars, started, now, prefetchCache, prefetchPromise, prefetchReply,
                    prefetchRequests, waiters, focused, searchValue, query,
                    hiddenId, maxQty, qtyValue, availHidden, remoteRequestId,
                    hideTimer, box, matches >>

\* fetchRemoteProducts resumes after await fetch(url), lines 228-235 and
\* 247-253.  outcome: "reject" (fetch threw), "status" (res.ok false), "ok".
RemoteResponse(req, outcome) ==
  /\ req \in inflight
  /\ req.stage = "fetch"
  /\ IF IsStale(req.requestId, req.row)
       THEN /\ inflight' = inflight \ {req}
            /\ UNCHANGED box
       ELSE CASE outcome = "reject" ->
                   /\ inflight' = inflight \ {req}
                   /\ box' = [box EXCEPT ![req.row] =
                                renderMessage("Search failed", "remote", req.query)]
              [] outcome = "status" ->
                   /\ inflight' = inflight \ {req}
                   /\ box' = [box EXCEPT ![req.row] =
                                renderMessage("Search failed (status)", "remote",
                                              req.query)]
              [] OTHER ->
                   /\ inflight' = (inflight \ {req}) \cup
                                    { [req EXCEPT !.stage = "json"] }
                   /\ UNCHANGED box
  /\ UNCHANGED << pageVars, started, now, prefetchCache, prefetchPromise, prefetchReply,
                  prefetchRequests, waiters, focused, rowVars, hideTimer >>

\* as RemoteBody, but the results are also written to the cache
RemoteBodyCaches(req, parsed, results) ==
  /\ req \in inflight
  /\ req.stage = "json"
  /\ inflight' = inflight \ {req}
  /\ prefetchCache' = IF parsed THEN results ELSE prefetchCache
  /\ IF IsStale(req.requestId, req.row)
       THEN UNCHANGED box
       ELSE box' = [box EXCEPT ![req.row] =
              IF ~parsed THEN renderMessage("Search failed", "remote", req.query)
              ELSE IF results = << >>
                THEN renderMessage("No products found", "remote", req.query)
                ELSE renderSuggestions(results, "No products found.", "remote",
                                       req.query)]
  /\ UNCHANGED << pageVars, started, now, prefetchPromise, prefetchReply,
                  prefetchRequests, waiters, focused, rowVars, hideTimer >>

\* fetchRemoteProducts resumes after await res.json(), lines 236-253.
\* parsed: FALSE when res.json() threw, else results is json.results || [].
RemoteBody(req, parsed, results) ==
  /\ req \in inflight
  /\ req.stage = "json"
  /\ inflight' = inflight \ {req}
  /\ IF IsStale(req.requestId, req.row)
       THEN UNCHANGED box
       ELSE box' = [box EXCEPT ![req.row] =
              IF ~parsed THEN renderMessage("Search failed", "remote", req.query)
              ELSE IF results = << >>
                THEN renderMessage("No products found", "remote", req.query)
                ELSE renderSuggestions(results, "No products found.", "remote",
                                       req.query)]
  /\ UNCHANGED << pageVars, started, now, prefetchCache, prefetchPromise, prefetchReply,
                  prefetchRequests, waiters, focused, rowVars, hideTimer >>

\* selectProduct lines 193-203: the bound the row carries after the selection,
\* given the one it carried before
BoundAfterSelectKept(old, product) ==
  IF ProductQty(product) # 0 THEN ProductQty(product) ELSE old

BoundAfterSelect(old, product) ==
  IF ProductQty(product) # 0 THEN ProductQty(product) ELSE 0

\* click on the i-th suggestion: the onSelect callback of lines 124-127 with
\* selectProduct, lines 183-205
Select(r, i) ==
  /\ ~box[r].hidden
  /\ box[r].kind = "products"
  /\ i \in 1..Len(box[r].items)
  /\ LET product == box[r].items[i] IN
       /\ hiddenId' = [hiddenId EXCEPT ![r] = product]
       /\ searchValue' = [searchValue EXCEPT ![r] = ProductName(product)]
       /\ maxQty' = [maxQty EXCEPT ![r] = BoundAfterSelect(maxQty[r], product)]
       /\ qtyValue' = [qtyValue EXCEPT ![r] =
                         IF ProductQty(product) # 0 /\ qtyValue[r] < 1
                           THEN 1 ELSE qtyValue[r]]
  /\ availHidden' = [availHidden EXCEPT ![r] = TRUE]
  /\ box' = [box EXCEPT ![r].hidden = TRUE]
  /\ UNCHANGED << pageVars, started, now, prefetchCache, prefetchPromise, prefetchReply,
                  prefetchRequests, waiters, focused, query, remoteRequestId,
                  localTimer, pendingTimers, hideTimer, matches, inflight >>

\* what the user can leave in the quantity field, read by parseInt(value ||
\* "0", 10) || 0: an empty field reads as 0
QtyEntries == { 0, 2, 3, 5, 6 }

\* updateAvailabilityMessage lines 213-218: maxQty && value > maxQty
OverLimitInclusive(bound, value) == bound # 0 /\ value >= bound

OverLimit(bound, value) == bound # 0 /\ value > bound

\* the quantity input's listener, lines 314-316: updateAvailabilityMessage(row)
QtyInput(r, n) ==
  /\ started
  /\ n # qtyValue[r]
  /\ qtyValue' = [qtyValue EXCEPT ![r] = n]
  /\ availHidden' = [availHidden EXCEPT ![r] = ~OverLimit(maxQty[r], n)]
  /\ UNCHANGED << pageVars, started, now, prefetchCache, prefetchPromise, prefetchReply,
                  prefetchRequests, waiters, focused, searchValue, query,
                  hiddenId, maxQty, remoteRequestId, localTimer, pendingTimers,
                  hideTimer, box, matches, inflight >>

---------------------------------------------------------------------------
(* Inventory page: src/static/inventory_products_ajax.js *)

\* data-default-limit of #inventoryGrid (line 19), the page size state.limit
DEFAULT_LIMIT == 2

\* renderSkeletons(count = 6), line 174
SKELETON_COUNT == 6

\* values of the product filter (state.product, lines 96-103)
Filters == { "", "x", "zz" }

\* what the list endpoint holds for a filter: item ids in server order
InventoryOf(f) ==
  IF f = "" THEN << 1, 2, 3 >> ELSE IF f = "x" THEN << 2 >> ELSE << >>

\* item.qty as the server reports it in a list response
ServerQty(i) == i + 2

\* the quantities an update or transfer answer may carry
NewQtys == { 0, 7 }

\* the checkboxes input[name="branches"] of an item's form
Branches == { "b1", "b2" }

\* children of #inventoryGrid: a card (buildCardHtml), a skeleton
\* (renderSkeletons), or one of the alerts of lines 548 and 563
Card(i, qty) == [kind |-> "card", id |-> i, qty |-> qty]

Skeleton == [kind |-> "skeleton", id |-> 0, qty |-> 0]

AlertEmpty == [kind |-> "empty", id |-> 0, qty |-> 0]

AlertError == [kind |-> "error", id |-> 0, qty |-> 0]

renderSkeletons == [k \in 1..SKELETON_COUNT |-> Skeleton]

\* the ids of the cards in a grid, in order
RECURSIVE CardIds(_)
CardIds(g) ==
  IF g = << >> THEN << >>
  ELSE IF Head(g).kind = "card" THEN << Head(g).id >> \o CardIds(Tail(g))
       ELSE CardIds(Tail(g))

\* the answer of the list endpoint to a successful request (lines 535-557):
\* the page of at most limit items from offset, with the totals
ListPage(f, offset) ==
  LET all == InventoryOf(f)
      last == Min(Len(all), offset + DEFAULT_LIMIT)
  IN [k \in 1..(IF last > offset THEN last - offset ELSE 0) |-> all[offset + k]]

ListResponse(f, offset) ==
  [items |-> ListPage(f, offset),
   offset |-> offset,
   total_count |-> Len(InventoryOf(f)),
   has_more |-> offset + Len(ListPage(f, offset)) < Len(InventoryOf(f))]

\* the inventory page after its script has run (lines 26-37, 897-898):
\* filters restored, the initial reset load on its way
InventoryPageLoaded ==
  /\ invState \in { [filter |-> f, offset |-> 0, total_count |-> 0,
                     has_more |-> FALSE] : f \in Filters }
  /\ grid = renderSkeletons
  /\ modals = << >>
  /\ loadMoreDisabled = TRUE
  /\ invLoads = { [seq |-> 1, reset |-> TRUE, filter |-> invState.filter,
                   offset |-> 0, wasOffset |-> 0, alone |-> TRUE] }
  /\ loadsStarted = 1
  /\ lastReset = 1
  /\ itemRequests = {}

\* loadInventory({ reset }) up to its first await, lines 519-534, called with
\* the filters st the listener has just put in state
loadInventory(reset, st) ==
  /\ loadsStarted < MaxLoads
  /\ loadsStarted' = loadsStarted + 1
  /\ lastReset' = IF reset THEN loadsStarted' ELSE lastReset
  /\ invState' = [st EXCEPT !.offset = IF reset THEN 0 ELSE @]
  /\ grid' = IF reset THEN renderSkeletons ELSE grid
  /\ loadMoreDisabled' = TRUE
  /\ invLoads' = invLoads \cup
       { [seq |-> loadsStarted', reset |-> reset, filter |-> invState'.filter,
          offset |-> invState'.offset,
          \* for the record: state.offset when the call began, and whether
          \* no other load was awaiting its answer then
          wasOffset |-> invState.offset, alone |-> invLoads = {}] }
  /\ UNCHANGED << modals, itemRequests, orderPageVars >>

\* filterForm submit listener, lines 658-666
FilterSubmit(f) == loadInventory(TRUE, [invState EXCEPT !.filter = f])

\* resetBtn click listener, lines 668-673
ResetClick == loadInventory(TRUE, [invState EXCEPT !.filter = ""])

\* loadMoreBtn click listener, lines 675-679; the button takes no click while
\* disabled, nor while updateLoadMore keeps its wrapper hidden (line 508)
LoadMoreClick ==
  /\ ~loadMoreDisabled
  /\ invState.has_more
  /\ loadInventory(FALSE, invState)

\* the cards of a list response, as insertAdjacentHTML appends them
RECURSIVE CardsOf(_)
CardsOf(items) ==
  IF items = << >> THEN << >>
  ELSE << Card(Head(items), ServerQty(Head(items))) >> \o CardsOf(Tail(items))

\* the state a load leaves when it fails, given the state it finds: the catch
\* block of lines 561-566 touches no field of state
StateAfterFailedLoadCleared(st, load) ==
  [st EXCEPT !.total_count = 0, !.has_more = FALSE]

StateAfterFailedLoad(st, load) == st

\* which loads may still write to state and grid when they are answered:
\* loadInventory has no check, every one does
LoadStillWanted(load) == TRUE

\* loadInventory resumes after its awaits, lines 535-571.  ok: the fetch
\* resolved with an OK status and a body with ok = true.
LoadComplete(load, ok) ==
  /\ load \in invLoads
  /\ invLoads' = invLoads \ {load}
  /\ loadMoreDisabled' = FALSE
  /\ IF ~LoadStillWanted(load)
       THEN UNCHANGED << invState, grid, modals >>
       ELSE IF ok
         THEN LET data == ListResponse(load.filter, load.offset) IN
                /\ invState' = [invState EXCEPT
                                  !.total_count = data.total_count,
                                  !.has_more = data.has_more,
                                  !.offset = data.offset + Len(data.items)]
                /\ grid' = IF data.items = << >> /\ load.reset
                             THEN << AlertEmpty >>
                             ELSE (IF load.reset THEN << >> ELSE grid)
                                    \o CardsOf(data.items)
                /\ modals' = (IF load.reset THEN << >> ELSE modals)
                               \o data.items
         ELSE /\ invState' = StateAfterFailedLoad(invState, load)
              /\ grid' = IF load.reset THEN << AlertError >> ELSE grid
              /\ UNCHANGED modals
  /\ UNCHANGED << loadsStarted, lastReset, itemRequests, orderPageVars >>

\* document.getElementById(...).remove() for an item's modals: the first
\* entry of the item goes
RECURSIVE RemoveFirst(_, _)
RemoveFirst(seq, id) ==
  IF seq = << >> THEN << >>
  ELSE IF Head(seq) = id THEN Tail(seq)
       ELSE << Head(seq) >> \o RemoveFirst(Tail(seq), id)

\* removeCardDom, lines 644-656: the first card of the item goes
RECURSIVE RemoveFirstCard(_, _)
RemoveFirstCard(g, id) ==
  IF g = << >> THEN << >>
  ELSE IF Head(g).kind = "card" /\ Head(g).id = id THEN Tail(g)
       ELSE << Head(g) >> \o RemoveFirstCard(Tail(g), id)

\* updateCardDom, lines 577-642: the first card of the item shows the quantity
RECURSIVE UpdateFirstCard(_, _, _)
UpdateFirstCard(g, id, qty) ==
  IF g = << >> THEN << >>
  ELSE IF Head(g).kind = "card" /\ Head(g).id = id
         THEN << Card(id, qty) >> \o Tail(g)
         ELSE << Head(g) >> \o UpdateFirstCard(Tail(g), id, qty)

\* is a form of the item on the page: the delete form sits in the card
\* (line 321), the edit and transfer forms in the modals (lines 403, 445)
HasCard(id) == \E k \in 1..Len(grid) : grid[k].kind = "card" /\ grid[k].id = id

HasModal(id) == \E k \in 1..Len(modals) : modals[k] = id

\* the branch check of the edit and delete handlers, lines 756-759, 800-803
BranchesMissingNever(checked) == FALSE

BranchesMissing(checked) == checked = {}

\* submit of an item form up to its await: the request goes out
SendItemRequest(kind, id, checked) ==
  /\ Cardinality(itemRequests) < MaxItemRequests
  /\ itemRequests' = itemRequests \cup
       { [kind |-> kind, item |-> id, branches |-> checked] }
  /\ UNCHANGED << invState, grid, modals, loadMoreDisabled, invLoads,
                  loadsStarted, lastReset, orderPageVars >>

\* edit-item-form submit, lines 749-772
EditSubmit(id, checked) ==
  /\ HasModal(id)
  /\ IF BranchesMissing(checked)
       THEN UNCHANGED vars
       ELSE SendItemRequest("update", id, checked)

\* delete-item-form submit, lines 794-809
DeleteSubmit(id, confirmed, checked) ==
  /\ HasCard(id)
  /\ IF ~confirmed \/ BranchesMissing(checked)
       THEN UNCHANGED vars
       ELSE SendItemRequest("delete", id, checked)

\* transfer-item-form submit, lines 822-834
TransferSubmit(id) ==
  /\ HasModal(id)
  /\ SendItemRequest("transfer", id, {})

\* an item request is answered, lines 773-790, 810-818, 835-852.  ok: OK
\* status and ok = true in the body; qty: the quantity the answer carries
\* (updated_item.qty, new_src_qty), or NoQty when an update answer has no
\* updated_item
ItemComplete(req, ok, qty) ==
  /\ req \in itemRequests
  /\ itemRequests' = itemRequests \ {req}
  /\ IF ~ok
       THEN UNCHANGED << grid, modals >>
       ELSE CASE req.kind = "delete" ->
                   /\ grid' = RemoveFirstCard(grid, req.item)
                   /\ modals' = RemoveFirst(modals, req.item)
              [] req.kind = "update" /\ qty = NoQty ->
                   UNCHANGED << grid, modals >>
              [] OTHER ->
                   /\ qty # NoQty
                   /\ grid' = UpdateFirstCard(grid, req.item, qty)
                   /\ UNCHANGED modals
  /\ UNCHANGED << invState, loadMoreDisabled, invLoads, loadsStarted,
                  lastReset, orderPageVars >>

---------------------------------------------------------------------------
(* Order form: gatherItems (src/static/js/ui-utils.js, lines 368-409) and  *)
(* the page script (src/unnamed/part_000).  A row that leaves the table is *)
(* a detached element: nothing on the page shows it any more, and its slot *)
(* goes back to the values createRow gives a new row.                      *)

\* createRow, lines 324-343: the rows rs as new elements; the callbacks
\* still pending for the elements they replace fall on detached nodes
FreshRows(rs) ==
  /\ searchValue' = [r \in Rows |-> IF r \in rs THEN << >> ELSE searchValue[r]]
  /\ query' = [r \in Rows |-> IF r \in rs THEN << >> ELSE query[r]]
  /\ hiddenId' = [r \in Rows |-> IF r \in rs THEN 0 ELSE hiddenId[r]]
  /\ maxQty' = [r \in Rows |-> IF r \in rs THEN 0 ELSE maxQty[r]]
  /\ qtyValue' = [r \in Rows |-> IF r \in rs THEN 1 ELSE qtyValue[r]]
  /\ availHidden' = [r \in Rows |-> IF r \in rs THEN TRUE ELSE availHidden[r]]
  /\ remoteRequestId' =
       [r \in Rows |-> IF r \in rs THEN NoToken ELSE remoteRequestId[r]]
  /\ localTimer' = [r \in Rows |-> IF r \in rs THEN NoTimer ELSE localTimer[r]]
  /\ hideTimer' = [r \in Rows |-> IF r \in rs THEN NoTimer ELSE hideTimer[r]]
  /\ box' = [r \in Rows |-> IF r \in rs THEN EmptyBox ELSE box[r]]
  /\ matches' = [r \in Rows |-> IF r \in rs THEN << >> ELSE matches[r]]
  /\ pendingTimers' = { t \in pendingTimers : t.row \notin rs }
  /\ inflight' = { req \in inflight : req.row \notin rs }
  /\ waiters' = waiters \ rs

RowsIn(container) == { container[k] : k \in 1..Len(container) }

\* addBtn.onclick, part_000 line 6: addRow(rows), lines 362-366
AddRow ==
  /\ started
  /\ RowsIn(rowList) # Rows
  /\ rowList' = Append(rowList, CHOOSE r \in Rows \ RowsIn(rowList) : TRUE)
  /\ UNCHANGED << inventoryVars, started, now, prefetchCache, prefetchPromise,
                  prefetchReply, prefetchRequests, waiters, focused, rowVars,
                  hideTimer, box, inflight, notesField, orderRequests,
                  ordersSent, alertBox >>

\* the remove button of the k-th row, lines 318-321: row.remove()
RemoveRow(k) ==
  /\ started
  /\ k \in 1..Len(rowList)
  /\ rowList' = SubSeq(rowList, 1, k - 1) \o SubSeq(rowList, k + 1, Len(rowList))
  /\ FreshRows({ rowList[k] })
  /\ focused' = IF focused = rowList[k] THEN NoRow ELSE focused
  /\ UNCHANGED << inventoryVars, started, now, prefetchCache, prefetchPromise,
                  prefetchReply, prefetchRequests, notesField, orderRequests,
                  ordersSent, alertBox >>

\* what the user can leave in the notes field of the order
NotesValues == { << >>, << " ", "n" >> }

NotesInput(v) ==
  /\ started
  /\ v # notesField
  /\ notesField' = v
  /\ UNCHANGED << inventoryVars, pickerVars, rowList, orderRequests,
                  ordersSent, alertBox >>

\* line 393: maxQty && qty > maxQty
ExceedsStockNever(bound, qty) == FALSE

ExceedsStock(bound, qty) == bound # 0 /\ qty > bound

\* the callback of rows.forEach, lines 373-406, for the row r at position
\* index (0-based in the code, reported as index + 1): what it pushes
RowReport(r, index) ==
  LET productId == hiddenId[r]    \* .product-id value, trimmed; 0 = ""
      qty == qtyValue[r]          \* parseInt(value || "0", 10) || 0
      bound == maxQty[r]          \* parseInt(dataset.maxQty || "0", 10) || 0
      report(kind, text) ==
        [kind |-> kind, row |-> index, text |-> text,
         product_id |-> productId, qty |-> qty]
  IN  IF productId = 0
        THEN IF qty > 0 \/ Trim(searchValue[r]) # << >>
               THEN report("error", "select a warehouse product.")
               ELSE report("none", "")
        ELSE IF qty <= 0
               THEN report("error", "quantity must be at least 1.")
               ELSE IF ExceedsStock(bound, qty)
                      THEN report("error",
                             "requested quantity exceeds available stock.")
                      ELSE report("item", "")

\* gatherItems, lines 368-409
gatherItems(container) ==
  LET reports == [k \in 1..Len(container) |-> RowReport(container[k], k)]
  IN  [items |-> SelectSeq(reports, LAMBDA x : x.kind = "item"),
       errors |-> SelectSeq(reports, LAMBDA x : x.kind = "error")]

\* showMessage, part_000 lines 43-50: class and text of #alertBox
showMessage(row, text, type) ==
  alertBox' = [type |-> type, row |-> row, text |-> text]

\* part_000 lines 10-15: the two early returns of submitWarehouseOrder
MaySend(g) == Len(g.errors) = 0 /\ Len(g.items) # 0

\* saveBtn.onclick: submitWarehouseOrder up to its first await, part_000
\* lines 8-27
Submit ==
  /\ started
  /\ LET g == gatherItems(rowList) IN
       IF MaySend(g)
         THEN /\ ordersSent < MaxOrders
              /\ ordersSent' = ordersSent + 1
              /\ orderRequests' = orderRequests \cup
                   { [seq |-> ordersSent + 1, notes |-> Trim(notesField),
                      items |-> g.items] }
              /\ UNCHANGED alertBox
         ELSE /\ IF Len(g.errors) > 0
                   THEN showMessage(g.errors[1].row, g.errors[1].text, "danger")
                   ELSE showMessage(0,
                          "Add at least one valid warehouse product.", "danger")
              /\ UNCHANGED << orderRequests, ordersSent >>
  /\ UNCHANGED << inventoryVars, pickerVars, rowList, notesField >>

\* how the create-order request can end: the body says ok; the body says not
\* ok; fetch or res.json() rejects
OrderOutcomes == { "ok", "not ok", "failed" }

\* part_000 lines 29-31: only an answer whose body has a truthy ok passes
ResetsFormAlways(outcome) == TRUE

ResetsForm(outcome) == outcome = "ok"

\* the rest of submitWarehouseOrder once the request has ended, part_000
\* lines 28-38
OrderComplete(req, outcome) ==
  /\ req \in orderRequests
  /\ orderRequests' = orderRequests \ {req}
  /\ IF ResetsForm(outcome)
       THEN /\ rowList' = << FirstRow >>
            /\ FreshRows(Rows)
            /\ focused' = NoRow
            /\ notesField' = << >>
            /\ showMessage(0,
                 "Order submitted successfully and sent to Inventory.",
                 "success")
       ELSE /\ showMessage(0, IF outcome = "not ok"
                                THEN "Failed to create order."
                                ELSE "Failed to submit order.", "danger")
            /\ UNCHANGED << rowList, notesField, focused, waiters, rowVars,
                            hideTimer, box, inflight >>
  /\ UNCHANGED << inventoryVars, started, now, prefetchCache, prefetchPromise,
                  prefetchReply, prefetchRequests, ordersSent >>

---------------------------------------------------------------------------
(* Specifications *)

\* the prefetch answers the search coordinator is explored with: a failure, a
\* short list, and a list longer than the display limit
SearchReplies ==
  { [kind |-> "reject"],
    [kind |-> "json", results |-> Catalogue(3)],
    [kind |-> "json", results |-> Catalogue(DISPLAY_LIMIT + 1)] }

\* The search coordinator of one row under every interleaving of user events,
\* timers and network completions (the other row stays untouched).
Next ==
  \/ ScriptStart
  \/ Tick
  \/ \E reply \in SearchReplies : PrefetchComplete(reply)
  \/ Focus(FirstRow)
  \/ Blur(FirstRow)
  \/ HideFire(FirstRow)
  \/ \E v \in InputValues : handleSearchInput(FirstRow, v)
  \/ TimerFire(FirstRow)
  \/ \E req \in inflight, outcome \in {"reject", "status", "ok"} :
       RemoteResponse(req, outcome)
  \/ \E req \in inflight :
       \/ RemoteBody(req, FALSE, << >>)
       \/ \E results \in RemoteResults : RemoteBody(req, TRUE, results)
  \/ \E i \in 1..MaxClickIndex : Select(FirstRow, i)

Spec == Init /\ [][Next]_vars

\* The prefetch cache shared by all rows: script start, focus and blur of
\* every row, text input, and the completion of the load.
NextPrefetch ==
  \/ ScriptStart
  \/ \E reply \in PrefetchReplies : PrefetchComplete(reply)
  \/ \E r \in Rows : Focus(r)
  \/ \E r \in Rows : Blur(r)
  \/ \E r \in Rows : handleSearchInput(r, << "a", "b" >>)

SpecPrefetch == Init /\ [][NextPrefetch]_vars

\* The local filter as a function of cache and query: the cache is any short
\* list of products or a full catalogue, the load has completed, the first
\* row has the focus, and the user edits the query.
FilterCaches ==
  UNION { [1..n -> 1..4] : n \in 0..MaxCacheLen }
    \cup { Catalogue(DISPLAY_LIMIT + 1), Catalogue(PREFETCH_LIMIT) }

FilterInputs ==
  InputValues \cup
  { << "a" >>, << "B" >>, << "A", "B", " " >>, << "a", " ", "b" >>,
    << "b", "a" >> }

InitFilter ==
  /\ started = TRUE
  /\ now = 0
  /\ prefetchCache \in FilterCaches
  /\ prefetchPromise = "fulfilled"
  /\ prefetchReply = [kind |-> "json", results |-> prefetchCache]
  /\ prefetchRequests = 1
  /\ waiters = {}
  /\ focused = FirstRow
  /\ searchValue = [r \in Rows |-> << >>]
  /\ query = [r \in Rows |-> << >>]
  /\ hiddenId = [r \in Rows |-> 0]
  /\ maxQty = [r \in Rows |-> 0]
  /\ qtyValue = [r \in Rows |-> 1]
  /\ availHidden = [r \in Rows |-> TRUE]
  /\ remoteRequestId = [r \in Rows |-> NoToken]
  /\ localTimer = [r \in Rows |-> NoTimer]
  /\ pendingTimers = {}
  /\ hideTimer = [r \in Rows |-> NoTimer]
  /\ box = [r \in Rows |->
              IF r = FirstRow
                THEN renderSuggestions(Slice(prefetchCache, DISPLAY_LIMIT),
                                       "No products loaded yet.", "prefetch",
                                       << >>)
                ELSE EmptyBox]
  /\ matches = [r \in Rows |-> << >>]
  /\ inflight = {}
  /\ NoInventoryPage
  /\ OrderForm(BothRows)

NextFilter ==
  \E v \in FilterInputs : handleSearchInput(FirstRow, v)

SpecFilter == InitFilter /\ [][NextFilter]_vars

\* Selecting and ordering: a small catalogue is loaded and the first row is
\* focused; the user types, picks suggestions and edits the quantity.
InitSelect == InitFilter /\ Len(prefetchCache) <= MaxCacheLen

NextSelect ==
  \/ \E v \in InputValues : handleSearchInput(FirstRow, v)
  \/ \E i \in 1..MaxCacheLen : Select(FirstRow, i)
  \/ \E n \in QtyEntries : QtyInput(FirstRow, n)
  \/ Blur(FirstRow)
  \/ Focus(FirstRow)

SpecSelect == InitSelect /\ [][NextSelect]_vars

\* The debounce of one focused row with time passing: the user types, the
\* clock advances, a due timer fires, the search answers.  Time goes on and a
\* due setTimeout callback is run by the event loop, hence the fairness; no
\* answer of the network is promised.
DebounceResults == { << >>, << 3, 1 >>, Catalogue(DISPLAY_LIMIT + 1) }

InitDebounce == InitFilter /\ prefetchCache = Catalogue(MaxCacheLen)

NextDebounce ==
  \/ Tick
  \/ \E v \in InputValues : handleSearchInput(FirstRow, v)
  \/ TimerFire(FirstRow)
  \/ \E req \in inflight, outcome \in {"reject", "status", "ok"} :
       RemoteResponse(req, outcome)
  \/ \E req \in inflight :
       \/ RemoteBody(req, FALSE, << >>)
       \/ \E results \in DebounceResults : RemoteBody(req, TRUE, results)

SpecDebounce ==
  /\ InitDebounce
  /\ [][NextDebounce]_vars
  /\ WF_vars(Tick)
  /\ WF_vars(TimerFire(FirstRow))

\* The inventory page: the script has run, the user filters, resets, loads
\* more and submits item forms while the answers come back in any order.
InitInventory ==
  /\ InventoryPageLoaded
  /\ OrderForm(BothRows)
  /\ started = FALSE
  /\ now = 0
  /\ prefetchCache = << >>
  /\ prefetchPromise = "null"
  /\ prefetchReply = NoReply
  /\ prefetchRequests = 0
  /\ waiters = {}
  /\ focused = NoRow
  /\ searchValue = [r \in Rows |-> << >>]
  /\ query = [r \in Rows |-> << >>]
  /\ hiddenId = [r \in Rows |-> 0]
  /\ maxQty = [r \in Rows |-> 0]
  /\ qtyValue = [r \in Rows |-> 1]
  /\ availHidden = [r \in Rows |-> TRUE]
  /\ remoteRequestId = [r \in Rows |-> NoToken]
  /\ localTimer = [r \in Rows |-> NoTimer]
  /\ pendingTimers = {}
  /\ hideTimer = [r \in Rows |-> NoTimer]
  /\ box = [r \in Rows |-> EmptyBox]
  /\ matches = [r \in Rows |-> << >>]
  /\ inflight = {}

NextInventory ==
  \/ \E f \in Filters : FilterSubmit(f)
  \/ ResetClick
  \/ LoadMoreClick
  \/ \E load \in invLoads, ok \in BOOLEAN : LoadComplete(load, ok)
  \/ \E id \in 1..3, checked \in SUBSET Branches : EditSubmit(id, checked)
  \/ \E id \in 1..3, confirmed \in BOOLEAN, checked \in SUBSET Branches :
       DeleteSubmit(id, confirmed, checked)
  \/ \E id \in 1..3 : TransferSubmit(id)
  \/ \E req \in itemRequests, ok \in BOOLEAN, qty \in NewQtys \cup {NoQty} :
       ItemComplete(req, ok, qty)

SpecInventory == InitInventory /\ [][NextInventory]_vars

\* typed texts and quantities of the order form
OrderInputs == { << "a" >> }

OrderQtys == { 0, 6 }

\* the catalogue the order form is explored with: a product with 5 in stock
\* and one with no stock figure
OrderCatalogue == << 1, 2 >>

\* The order form: the catalogue is loaded, the page script has added its one
\* row; the user adds and removes rows, picks products, edits quantities and
\* notes, and saves; the create-order request ends in any of its three ways.
InitOrder ==
  /\ started = TRUE
  /\ now = 0
  /\ prefetchCache = OrderCatalogue
  /\ prefetchPromise = "fulfilled"
  /\ prefetchReply = [kind |-> "json", results |-> prefetchCache]
  /\ prefetchRequests = 1
  /\ waiters = {}
  /\ focused = NoRow
  /\ searchValue = [r \in Rows |-> << >>]
  /\ query = [r \in Rows |-> << >>]
  /\ hiddenId = [r \in Rows |-> 0]
  /\ maxQty = [r \in Rows |-> 0]
  /\ qtyValue = [r \in Rows |-> 1]
  /\ availHidden = [r \in Rows |-> TRUE]
  /\ remoteRequestId = [r \in Rows |-> NoToken]
  /\ localTimer = [r \in Rows |-> NoTimer]
  /\ pendingTimers = {}
  /\ hideTimer = [r \in Rows |-> NoTimer]
  /\ box = [r \in Rows |-> EmptyBox]
  /\ matches = [r \in Rows |-> << >>]
  /\ inflight = {}
  /\ NoInventoryPage
  /\ OrderForm(<< FirstRow >>)

\* the user's events on the picker's rows; the user works on the rows while no
\* order is on its way
RowEvents ==
  \/ AddRow
  \/ RemoveRow(Len(rowList))
  \/ \E k \in 1..Len(rowList) : Focus(rowList[k])
  \/ \E k \in 1..Len(rowList) : Blur(rowList[k])
  \/ \E v \in OrderInputs : handleSearchInput(FirstRow, v)
  \/ \E k \in 1..Len(rowList), i \in 1..Len(OrderCatalogue) :
       Select(rowList[k], i)

NextOrder ==
  \/ orderRequests = {} /\ RowEvents
  \/ \E k \in 1..Len(rowList), n \in OrderQtys : QtyInput(rowList[k], n)
  \/ \E v \in NotesValues : NotesInput(v)
  \/ Submit
  \/ \E req \in orderRequests, outcome \in OrderOutcomes :
       OrderComplete(req, outcome)

SpecOrder == InitOrder /\ [][NextOrder]_vars

---------------------------------------------------------------------------
(* Properties *)

\* C1: a remote response is in the suggestion box only while the query it was
\* issued for is still the row's most recent query, whatever the length of
\* the newer query.
RemoteRenderIsForCurrentQuery ==
  \A r \in Rows : box[r].origin = "remote" => box[r].q = query[r]

\* C2: when a response is consumed whose query has been superseded by another
\* query of at least 2 characters, the suggestion box is left as it was (no
\* render, no error message); and under a query of at least 2 characters a
\* remote render in the box is always that query's own.
StaleResponseDiscarded ==
  [][ /\ \A req \in inflight :
           ( /\ req \notin inflight'
             /\ WantsRemote(query[req.row])
             /\ req.query # query[req.row] )
           => box'[req.row] = box[req.row]
      /\ \A r \in Rows :
           (WantsRemote(query'[r]) /\ box'[r].origin = "remote")
           => box'[r].q = query'[r]
    ]_vars

\* C2 witness: the first query's request is still in flight, superseded by a
\* second query of at least 2 characters whose remote results are displayed.
LateResponseStillInFlight ==
  \E req \in inflight :
     /\ WantsRemote(query[req.row])
     /\ req.query # query[req.row]
     /\ box[req.row].origin = "remote"
     /\ box[req.row].kind = "products"
     /\ box[req.row].q = query[req.row]

\* C3: an input event with a query of at least 2 characters (it arms a new
\* debounce timer) gives the row a token strictly greater than the one before.
TokenStrictlyIncreases ==
  [][ \A r \in Rows :
        (localTimer'[r].set /\ localTimer'[r] # localTimer[r])
        => remoteRequestId'[r] > remoteRequestId[r]
    ]_vars

\* C4: however often load() is called, from script start and from the focus
\* of any row, one prefetch request has been issued, and rows wait only for
\* that one pending load.
PrefetchRequestedOnce ==
  /\ prefetchRequests = (IF started THEN 1 ELSE 0)
  /\ waiters # {} => prefetchPromise = "pending"

\* C4 witness: load() was called at script start and from the focus of each
\* row while the load is pending; one request is out and both rows wait for it.
LoadSharedByRows ==
  /\ waiters = Rows
  /\ prefetchPromise = "pending"
  /\ prefetchRequests = 1

\* C5: after a failed load that left the cache empty, the next load() call
\* (focus of a search input) issues a new prefetch request.
FailedLoadRetriedOnNextLoad ==
  [][ ( /\ prefetchReply \in PrefetchFailures
        /\ prefetchPromise # "pending"
        /\ prefetchCache = << >>
        /\ focused = NoRow
        /\ focused' \in Rows )
      => prefetchRequests' = prefetchRequests + 1
    ]_vars

\* C6: the operation returned by load() never rejects; once it has completed,
\* the cache is empty after a failure and is exactly the returned result list,
\* in its order, after a success.
PrefetchFailureSwallowed ==
  /\ prefetchPromise # "rejected"
  /\ prefetchPromise = "fulfilled" =>
       /\ prefetchReply \in PrefetchReplies
       /\ prefetchReply \in PrefetchFailures => prefetchCache = << >>
       /\ prefetchReply.kind = "json" => prefetchCache = prefetchReply.results

\* C6 witness: a load failed, its promise completed normally and the waiting
\* row's callback rendered the empty cache.
PrefetchFailedQuietly ==
  /\ prefetchReply \in PrefetchFailures
  /\ prefetchPromise = "fulfilled"
  /\ prefetchCache = << >>
  /\ \E r \in Rows : box[r].msg = "No products loaded yet."

\* C7: the cache never holds more than PREFETCH_LIMIT products, whatever the
\* prefetch endpoint returns.
CacheWithinPrefetchLimit == Len(prefetchCache) <= PREFETCH_LIMIT

\* a field of the product, taken by itself, contains the query
FieldContains(id, q) ==
  \/ Includes(ToLowerCase(ProductName(id)), ToLowerCase(q))
  \/ Includes(ToLowerCase(ProductSku(id)), ToLowerCase(q))
  \/ Includes(ToLowerCase(ProductTag(id)), ToLowerCase(q))

\* C8: for a non-empty query every entry the filter returned contains the
\* query, case-insensitively, in its name, in its SKU or in its tag.
FilterMatchesOwnField ==
  \A r \in Rows :
     query[r] # << >> =>
       \A k \in 1..Len(matches[r]) : FieldContains(matches[r][k], query[r])

\* cache positions whose entry the filter accepts for query q
MatchingIndexes(cache, q) ==
  { i \in 1..Len(cache) :
      q = << >> \/ ProductMatches(cache[i], ToLowerCase(q)) }

\* the first DISPLAY_LIMIT of them
FirstMatchingIndexes(cache, q) ==
  LET all == MatchingIndexes(cache, q) IN
    { i \in all : Cardinality({ j \in all : j < i }) < DISPLAY_LIMIT }

\* C9: the filter result of the latest input event is the cache restricted,
\* in cache order and position by position, to the first DISPLAY_LIMIT
\* matching positions: at most DISPLAY_LIMIT entries, none repeated, no
\* matching entry skipped in favour of a later one; for the empty query these
\* are the first DISPLAY_LIMIT cache entries.  An entry that contains the
\* query in one of its own fields is never passed over while room is left.
FilterReturnsFirstMatches ==
  \A r \in Rows :
     box[r].origin = "local" =>
       LET kept == FirstMatchingIndexes(prefetchCache, query[r])
           nth(k) == CHOOSE i \in kept : Cardinality({ j \in kept : j < i }) = k - 1
       IN
         /\ Len(matches[r]) = Cardinality(kept)
         /\ Len(matches[r]) <= DISPLAY_LIMIT
         /\ \A k \in 1..Len(matches[r]) : matches[r][k] = prefetchCache[nth(k)]
         /\ query[r] = << >> => matches[r] = Slice(prefetchCache, DISPLAY_LIMIT)
         /\ \A i \in 1..Len(prefetchCache) :
              ( /\ query[r] # << >>
                /\ FieldContains(prefetchCache[i], query[r])
                /\ i \notin kept )
              => Cardinality({ j \in kept : j < i }) = DISPLAY_LIMIT

\* C9 witness: a non-empty query matched more than DISPLAY_LIMIT cache entries
\* and the filter returned DISPLAY_LIMIT of them.
FilterCutAtDisplayLimit ==
  /\ box[FirstRow].origin = "local"
  /\ query[FirstRow] # << >>
  /\ Len(matches[FirstRow]) = DISPLAY_LIMIT
  /\ Cardinality(MatchingIndexes(prefetchCache, query[FirstRow])) > DISPLAY_LIMIT

\* C10: the cache changes only in the step in which the pending prefetch load
\* completes.
CacheChangesOnlyOnLoad ==
  [][ prefetchCache' # prefetchCache
      => (prefetchPromise = "pending" /\ prefetchPromise' # "pending")
    ]_vars

\* C10 witness: after a load, a local filter, a remote search and a selection
\* from its results, the cache is still the list the load stored.
CacheKeptThroughSearch ==
  /\ prefetchCache # << >>
  /\ prefetchCache = prefetchReply.results
  /\ \E r \in Rows :
       /\ hiddenId[r] # 0
       /\ box[r].origin = "remote"
       /\ matches[r] # << >>

\* A text-change event on row r: the input listener, lines 304-306
InputEvent(r) == \E v \in FilterInputs : handleSearchInput(r, v)

\* C11: every text-change event on a row clears, in that same event, the
\* row's selected product identifier and its quantity bound, whatever the
\* length of the new query.
InputClearsSelection ==
  [][\A r \in Rows :
       InputEvent(r) => hiddenId'[r] = 0 /\ maxQty'[r] = 0]_vars

\* A product with a bound was selected, a quantity over the bound was entered
\* (the over-limit message shows), and then the text was edited: the
\* selection and the bound are gone while the message is still up.
SelectionClearedByEdit ==
  /\ hiddenId[FirstRow] = 0
  /\ maxQty[FirstRow] = 0
  /\ ~availHidden[FirstRow]
  /\ Len(query[FirstRow]) < MIN_REMOTE_LEN

\* C12: on every text-change event the local filter result for the new
\* trimmed query is on screen when the event ends: the list shown equals
\* filterLocalProducts(query), or is an empty-state message when that is
\* empty; the debounce timer the event starts is not yet due and no remote
\* request has been sent by it.
InputRendersLocalFilter ==
  [][\A r \in Rows :
       InputEvent(r) =>
         LET q == Trim(searchValue'[r])
             found == filterLocalProducts(prefetchCache, q)
         IN /\ ~box'[r].hidden
            /\ IF found = << >>
                 THEN /\ box'[r].kind = "message"
                      /\ box'[r].msg =
                           (IF q # << >> THEN "No local matches"
                                         ELSE "No products yet.")
                 ELSE /\ box'[r].kind = "products"
                      /\ box'[r].items = found
            /\ inflight' = inflight
            /\ \A t \in pendingTimers' : t.row = r => t.timer.due > now']_vars

\* A query typed over a catalogue larger than the display limit: the list on
\* screen is the local result, cut at the limit.
LocalResultShownAtLimit ==
  /\ box[FirstRow].origin = "local"
  /\ box[FirstRow].kind = "products"
  /\ Len(box[FirstRow].items) = DISPLAY_LIMIT
  /\ query[FirstRow] # << >>
  /\ box[FirstRow].items = filterLocalProducts(prefetchCache, query[FirstRow])

\* C13: a remote search request is sent only for a query whose trimmed length
\* is at least 2; for an empty or one-character query no request is issued
\* and no debounce timer is scheduled.
RemoteOnlyForLongQueries ==
  /\ \A req \in inflight : Len(req.query) >= MIN_REMOTE_LEN
  /\ \A t \in pendingTimers : Len(t.timer.query) >= MIN_REMOTE_LEN
  /\ \A r \in Rows :
       Len(query[r]) < MIN_REMOTE_LEN =>
         ~ \E t \in pendingTimers : t.row = r

\* A one-character query typed after a longer one, once the debounce delay
\* has gone by: nothing is scheduled and nothing is in flight for it.
ShortQueryLeftLocal ==
  /\ Len(query[FirstRow]) = 1
  /\ box[FirstRow].origin = "local"
  /\ remoteRequestId[FirstRow] # NoToken
  /\ now >= remoteRequestId[FirstRow] + DEBOUNCE_MS
  /\ pendingTimers = {}
  /\ inflight = {}

\* the debounce callbacks scheduled for row r in a set of scheduled callbacks
TimersOf(pending, r) == { t \in pending : t.row = r }

\* C14: a row never has more than one pending debounce timer; a text-change
\* event cancels the timer pending for the row, so that only the timer of the
\* newest query can remain; and a remote lookup is issued for a query only
\* when it is still the row's newest query and 220 ms have passed since it
\* was typed.
OneDebounceTimerPerRow ==
  [][\A r \in Rows :
       /\ Cardinality(TimersOf(pendingTimers', r)) <= 1
       /\ InputEvent(r) =>
            \A t \in TimersOf(pendingTimers', r) :
              /\ t.timer.query = query'[r]
              /\ t.timer.due = now + DEBOUNCE_MS
       /\ \A req \in inflight' \ inflight :
            (req.row = r /\ req.stage = "fetch") =>
              /\ req.query = query[r]
              /\ req.requestId = remoteRequestId[r]
              /\ now >= req.requestId + DEBOUNCE_MS]_vars

\* A token was issued less than 220 ms ago, so its timer cannot have fired,
\* and yet nothing is scheduled: a newer keystroke cancelled the timer.
TimerCancelledByKeystroke ==
  /\ remoteRequestId[FirstRow] # NoToken
  /\ now < remoteRequestId[FirstRow] + DEBOUNCE_MS
  /\ pendingTimers = {}
  /\ inflight = {}
  /\ Len(query[FirstRow]) < MIN_REMOTE_LEN

\* The remote search for req fails: fetch rejects (line 247), the status is
\* not a success (line 230), or the body cannot be read (line 236)
RemoteFailure(req) ==
  \/ RemoteResponse(req, "reject")
  \/ RemoteResponse(req, "status")
  \/ RemoteBody(req, FALSE, << >>)

\* the error placeholder of a failed search for req
IsErrorPlaceholder(b, req) ==
  /\ ~b.hidden
  /\ b.kind = "message"
  /\ b.msg \in { "Search failed", "Search failed (status)" }
  /\ b.origin = "remote"
  /\ b.q = req.query

\* C15: when a remote search fails, the error placeholder is rendered in the
\* row if the request's token still equals the row's current token, and the
\* failure is dropped without touching the list if it does not; either way
\* the request ends there and nothing else changes.
FailureRenderedIffCurrent ==
  [][\A req \in inflight :
       RemoteFailure(req) =>
         /\ IF req.requestId = remoteRequestId[req.row]
              THEN /\ IsErrorPlaceholder(box'[req.row], req)
                   /\ \A r \in Rows \ {req.row} : box'[r] = box[r]
              ELSE box' = box
         /\ inflight' = inflight \ {req}
         /\ UNCHANGED << prefetchCache, rowVars, focused, hideTimer >>]_vars

\* A search for the current query failed with a non-success status and its
\* placeholder is on screen.
FailurePlaceholderShown ==
  /\ box[FirstRow].msg = "Search failed (status)"
  /\ box[FirstRow].q = query[FirstRow]
  /\ ~box[FirstRow].hidden
  /\ inflight = {}

\* C16: a click on a suggestion stores the product's identifier and name in
\* the row, hides the suggestion list, and sets the quantity bound: an
\* available quantity above 0 becomes the bound, while 0 or none leaves the
\* row without a bound, whatever bound it had.
SelectionStoresProduct ==
  [][\A r \in Rows : \A i \in 1..DISPLAY_LIMIT :
       Select(r, i) =>
         LET product == box[r].items[i] IN
           /\ hiddenId'[r] = product
           /\ searchValue'[r] = ProductName(product)
           /\ box'[r].hidden
           /\ maxQty'[r] = (IF ProductQty(product) > 0
                              THEN ProductQty(product) ELSE 0)]_vars

\* A product without available quantity was picked from the list the focus
\* listener re-opened: it is stored and the row has no bound.
UnboundedProductSelected ==
  /\ hiddenId[FirstRow] # 0
  /\ ProductQty(hiddenId[FirstRow]) = 0
  /\ searchValue[FirstRow] = ProductName(hiddenId[FirstRow])
  /\ maxQty[FirstRow] = 0
  /\ box[FirstRow].hidden
  /\ box[FirstRow].origin = "prefetch"
  /\ hideTimer[FirstRow].set

\* C17: while a product with available quantity n > 0 is selected the row's
\* bound is n, and a quantity-input event leaves the over-limit message
\* showing exactly when the entered quantity is greater than n.
OverLimitMessageExact ==
  [][\A r \in Rows :
       (hiddenId[r] # 0 /\ ProductQty(hiddenId[r]) > 0) =>
         /\ maxQty[r] = ProductQty(hiddenId[r])
         /\ (\E n \in QtyEntries : QtyInput(r, n)) =>
              (~availHidden'[r] <=> qtyValue'[r] > ProductQty(hiddenId[r]))]_vars

\* The product with 5 available units is selected and 6 was entered: the
\* over-limit message is up.
SixOverBoundOfFive ==
  /\ hiddenId[FirstRow] # 0
  /\ ProductQty(hiddenId[FirstRow]) = 5
  /\ maxQty[FirstRow] = 5
  /\ qtyValue[FirstRow] = 6
  /\ ~availHidden[FirstRow]

\* what openPrefetch puts on screen for a cache
CacheRendering(cache) ==
  renderSuggestions(Slice(cache, DISPLAY_LIMIT), "No products loaded yet.",
                    "prefetch", << >>)

\* C18: when a search input with an empty query gets the focus, a populated
\* cache is shown at once, cut at the display limit; with an empty cache the
\* load is asked for and, while it is pending, the loading placeholder is
\* shown; and when the load settles, each waiting row gets the cache
\* contents only if its input has the focus at that moment, the other rows
\* being left as they are.
FocusShowsCacheOrWaits ==
  [][\A r \in Rows :
       /\ (focused = NoRow /\ focused' = r /\ Trim(searchValue[r]) = << >>) =>
            IF prefetchCache # << >>
              THEN /\ box'[r] = CacheRendering(prefetchCache)
                   /\ box'[r].kind = "products"
                   /\ Len(box'[r].items) <= DISPLAY_LIMIT
                   /\ prefetchRequests' = prefetchRequests
              ELSE /\ prefetchPromise' # "null"
                   /\ prefetchPromise' = "fulfilled" =>
                        box'[r] = CacheRendering(prefetchCache)
                   /\ prefetchPromise' = "pending" =>
                        /\ r \in waiters'
                        /\ box'[r].msg = "Loading warehouse products..."
                        /\ ~box'[r].hidden
       /\ (prefetchPromise = "pending" /\ prefetchPromise' # "pending"
             /\ r \in waiters) =>
            IF focused = r
              THEN box'[r] = CacheRendering(prefetchCache')
              ELSE box'[r] = box[r]]_vars

\* Two rows waited for the load; it brought products while the second had
\* the focus: the second shows them, the first still shows the placeholder.
LoadRenderedInFocusedRowOnly ==
  /\ prefetchPromise = "fulfilled"
  /\ prefetchCache # << >>
  /\ box["r1"].msg = "Loading warehouse products..."
  /\ box["r2"].kind = "products"
  /\ box["r2"].origin = "prefetch"
  /\ searchValue["r2"] = << >>

\* a click on one of the suggestions of row r
SelectEvent(r) == \E i \in 1..DISPLAY_LIMIT : Select(r, i)

\* C19 as stated: a selection click cancels the grace timer the blur
\* started, so that the timer does not fire after a selection.
SelectionCancelsGraceTimer ==
  [][\A r \in Rows :
       (SelectEvent(r) /\ hideTimer[r].set) => ~hideTimer'[r].set]_vars

\* C19: a blur starts a grace timer due 150 ms later; the timer fires no
\* earlier than that and hides the suggestion list; it is cancelled only by
\* the input getting the focus again, so none is pending while the input has
\* the focus; a selection click hides the list itself and leaves the timer
\* pending.
BlurHidesAfterGrace ==
  [][\A r \in Rows :
       /\ (focused = r /\ focused' = NoRow) =>
            hideTimer'[r] = [set |-> TRUE, due |-> now + HIDE_MS]
       /\ (focused = NoRow /\ focused' = r) => ~hideTimer'[r].set
       /\ (hideTimer[r].set /\ ~hideTimer'[r].set /\ focused' # r) =>
            /\ now >= hideTimer[r].due
            /\ box'[r].hidden
       /\ SelectEvent(r) => (hideTimer'[r] = hideTimer[r] /\ box'[r].hidden)
       /\ hideTimer'[r].set => focused' # r]_vars

\* A suggestion was clicked within the grace delay of a blur: the product is
\* stored, the list is hidden and the grace timer is still pending.
SelectedWithinGraceDelay ==
  /\ hiddenId[FirstRow] # 0
  /\ searchValue[FirstRow] = ProductName(hiddenId[FirstRow])
  /\ box[FirstRow].hidden
  /\ hideTimer[FirstRow].set
  /\ now < hideTimer[FirstRow].due

\* the messages that tell the user there are no products to choose from:
\* openPrefetch lines 267 and 273, handleSearchInput line 287
EmptyCatalogueMessages == { "No products loaded yet.", "No products yet." }

\* C20: the message on screen lets the user tell an empty catalogue from a
\* transient failure: a row never shows one of the no-products messages
\* when the catalogue is empty only because loading it failed.
EmptyCatalogueToldFromFailure ==
  \A r \in Rows :
    (~box[r].hidden /\ box[r].kind = "message"
       /\ box[r].msg \in EmptyCatalogueMessages) =>
      prefetchReply \notin PrefetchFailures

\* the latest moment the clock of the model reaches
LastNow == MaxTicks * TickMs

\* row r shows the local result of query q, typed early enough for its
\* debounce delay to end within the explored time, and no request for it is
\* out yet
TypedAndWaiting(r, q) ==
  /\ query[r] = q
  /\ Len(q) >= MIN_REMOTE_LEN
  /\ box[r].origin = "local"
  /\ box[r].q = q
  /\ now + DEBOUNCE_MS <= LastNow
  /\ ~ \E req \in inflight :
         req.row = r /\ req.query = q /\ req.requestId = remoteRequestId[r]

\* a request for q with the row's current token is out, or q is no longer
\* the row's query
IssuedOrSuperseded(r, q) ==
  \/ \E req \in inflight :
       req.row = r /\ req.query = q /\ req.requestId = remoteRequestId[r]
  \/ query[r] # q

\* C21: a query of at least 2 characters that no newer query follows gets a
\* remote request for exactly that query once the debounce delay is over;
\* and when the answer to the row's current query brings a non-empty result
\* list, the suggestion list becomes the remote results, cut at the display
\* limit, and nothing else.
DebouncedQueryIsSearched ==
  /\ \A q \in InputValues :
       TypedAndWaiting(FirstRow, q) ~> IssuedOrSuperseded(FirstRow, q)
  /\ [][\A req \in inflight : \A results \in DebounceResults :
          ( /\ RemoteBody(req, TRUE, results)
            /\ results # << >>
            /\ req.requestId = remoteRequestId[req.row]
            /\ req.query = query[req.row] ) =>
            /\ req.requestId + DEBOUNCE_MS <= now
            /\ box'[req.row].kind = "products"
            /\ box'[req.row].items = Slice(results, DISPLAY_LIMIT)
            /\ box'[req.row].origin = "remote"
            /\ ~box'[req.row].hidden]_vars

\* The remote answer to the current query replaced a local list: the row
\* shows the remote products, which are not the local matches.
RemoteResultsReplacedLocal ==
  /\ box[FirstRow].origin = "remote"
  /\ box[FirstRow].kind = "products"
  /\ box[FirstRow].q = query[FirstRow]
  /\ matches[FirstRow] # << >>
  /\ box[FirstRow].items # matches[FirstRow]
  /\ inflight = {}

\* C22: once a product is selected on a row, the suggestion list of the row
\* stays hidden and keeps its content until the row's input gets the focus
\* or its text changes: no timer and no remote response re-opens or
\* replaces it.
ListStaysHiddenAfterSelection ==
  [][\A r \in Rows :
       ( /\ hiddenId[r] # 0
         /\ box[r].hidden
         /\ ~(focused = NoRow /\ focused' = r)
         /\ ~InputEvent(r) ) =>
         box'[r] = box[r]]_vars

\* C23: whenever a row shows products while its query text is not empty,
\* they were put there for a query, by the local filter or by a remote
\* answer, and not as the unfiltered head of the cache by the focus listener
\* or by the completion of the prefetch.
ShownProductsAnswerTheQuery ==
  \A r \in Rows :
    ( /\ ~box[r].hidden
      /\ box[r].kind = "products"
      /\ Trim(searchValue[r]) # << >> ) =>
      box[r].origin \in { "local", "remote" }

\* C24: once a reset load has been started, the answer to a load started
\* before it changes neither the grid nor offset, total_count and has_more.
EarlierLoadAnswerIgnored ==
  [][\A load \in invLoads :
       (load \notin invLoads' /\ load.seq < lastReset) =>
         (CardIds(grid') = CardIds(grid) /\ invState' = invState)]_vars

\* a load that was the only one under way from its start to its answer
LoneLoad(load) == load.alone /\ load.seq = loadsStarted

CountCards(g, id) ==
  Cardinality({ k \in 1..Len(g) : g[k].kind = "card" /\ g[k].id = id })

CountModals(m, id) == Cardinality({ k \in 1..Len(m) : m[k] = id })

\* C28: an update or delete request goes out only with at least one branch
\* checked, and a delete request only after the confirmation was accepted;
\* the item forms' handlers take a card or its modals off the page only when
\* a delete request for that item is answered with success; and a failed
\* update, delete or transfer leaves grid and modals as they are.
ItemRequestsGuarded ==
  [][/\ \A req \in itemRequests' \ itemRequests :
          req.kind \in { "update", "delete" } => req.branches # {}
     /\ \A id \in 1..3 : \A checked \in SUBSET Branches :
          DeleteSubmit(id, FALSE, checked) => itemRequests' = itemRequests
     /\ \A req \in itemRequests : \A qty \in NewQtys \cup {NoQty} :
          ItemComplete(req, FALSE, qty) => (grid' = grid /\ modals' = modals)
     /\ invLoads' = invLoads =>
          \A id \in 1..3 :
            ( \/ CountCards(grid', id) < CountCards(grid, id)
              \/ CountModals(modals', id) < CountModals(modals, id) ) =>
              \E req \in itemRequests :
                /\ req.kind = "delete"
                /\ req.item = id
                /\ req.branches # {}
                /\ ItemComplete(req, TRUE, NoQty)]_vars

\* The first page was loaded and item 1 was deleted: its card and modals are
\* gone, those of item 2 are still there.
CardRemovedAfterDelete ==
  /\ invState.filter = ""
  /\ invState.offset = 2
  /\ CardIds(grid) = << 2 >>
  /\ modals = << 2 >>
  /\ itemRequests = {}
  /\ invLoads = {}

\* how many entries of a list of reports come from the row at position k
ReportsOf(reports, k) ==
  Cardinality({ j \in 1..Len(reports) : reports[j].row = k })

\* C26: gatherItems reports each row at most once, as an item or as an error;
\* every item has a non-empty product id, a quantity of at least 1 and, when
\* the row carries a bound, a quantity within it; a row with a product id is
\* reported exactly once.
GatherItemsReportsEachRowOnce ==
  LET g == gatherItems(rowList) IN
    /\ \A k \in 1..Len(rowList) :
         LET n == ReportsOf(g.items, k) + ReportsOf(g.errors, k) IN
           /\ n <= 1
           /\ hiddenId[rowList[k]] # 0 => n = 1
    /\ \A j \in 1..Len(g.items) :
         LET item == g.items[j]
             r == rowList[item.row]
         IN  /\ item.product_id # 0
             /\ item.product_id = hiddenId[r]
             /\ item.qty >= 1
             /\ item.qty = qtyValue[r]
             /\ maxQty[r] # 0 => item.qty <= maxQty[r]

\* Saving with two rows showed the error of the second, whose quantity is
\* beyond its bound, while the first row is a valid item.
SecondRowOverStockReported ==
  /\ Len(rowList) = 2
  /\ alertBox = [type |-> "danger", row |-> 2,
                 text |-> "requested quantity exceeds available stock."]
  /\ Len(gatherItems(rowList).items) = 1
  /\ gatherItems(rowList).items[1].row = 1
  /\ Len(gatherItems(rowList).errors) = 1
  /\ orderRequests = {}

\* the fields of the order rows and the notes of the order
formFields == << rowList, notesField, searchValue, hiddenId, qtyValue, maxQty >>

\* C27: a create-order request is sent only when gatherItems reports no
\* error and at least one item, and it carries those items; the handler
\* resets the rows to a single empty row and empties the notes when the
\* answer says ok, and leaves rows and notes as they are when validation
\* fails, the request fails or the answer says not ok.
OrderSentAndResetOnlyWhenOk ==
  [][/\ \A req \in orderRequests' \ orderRequests :
          LET g == gatherItems(rowList) IN
            /\ Len(g.errors) = 0
            /\ Len(g.items) >= 1
            /\ req.items = g.items
     /\ Submit => UNCHANGED formFields
     /\ \A req \in orderRequests : \A outcome \in OrderOutcomes :
          OrderComplete(req, outcome) =>
            IF outcome = "ok"
              THEN /\ Len(rowList') = 1
                   /\ searchValue'[rowList'[1]] = << >>
                   /\ hiddenId'[rowList'[1]] = 0
                   /\ maxQty'[rowList'[1]] = 0
                   /\ qtyValue'[rowList'[1]] = 1
                   /\ notesField' = << >>
              ELSE UNCHANGED formFields]_vars

\* The order was accepted: the success message is up over a single empty row
\* and empty notes.
FormResetAfterAcceptedOrder ==
  /\ alertBox.type = "success"
  /\ ordersSent = 1
  /\ orderRequests = {}
  /\ Len(rowList) = 1
  /\ hiddenId[rowList[1]] = 0
  /\ searchValue[rowList[1]] = << >>
  /\ notesField = << >>

=============================================================================
